---------------------------- MODULE Spec2Model ----------------------------
(***************************************************************************)
(* Model of the Academic Stress dashboard scripts.                         *)
(*                                                                         *)
(*   src/app.py            the single-file dashboard: a cached loader, the *)
(*                         stress-column resolver and four pages chosen by *)
(*                         a sidebar radio                                 *)
(*   src/unnamed/part_000  two stand-alone page scripts, "Page 2.py" and   *)
(*                         "Page 3.py", each with a cached loader of its   *)
(*                         own                                             *)
(*                                                                         *)
(* A script run is one action: Streamlit re-executes the whole script on   *)
(* every interaction, so a run is load_data(), the resolver and the body   *)
(* of the selected page.  What a run displays is kept as the sequence of   *)
(* elements it emitted, and the exception that ended it, if any.           *)
(*                                                                         *)
(* Texts are sequences of one-character strings, so that strip / lower /   *)
(* replace and the substring test are computed, not assumed.  CSV cells    *)
(* are the cell texts of the file; "" is an empty cell, which pandas reads *)
(* as NaN.                                                                 *)
(***************************************************************************)
EXTENDS Integers, Sequences, FiniteSets, TLC

VARIABLES
    csv,        \* the remote CSV: [header, data], data column-major
    cache,      \* st.cache_data: loader -> the memoized table, or NoTable
    fetches,    \* loader -> number of pd.read_csv(DATA_URL) calls made
    ret,        \* the table the last load_data() call returned
    df,         \* the script's global df when the last run ended
    stress_col, \* app.py's global stress_col of the last run
    view,       \* what the last run displayed: [script, page, out, crashed]
    probe       \* a column name put through the canonicalization: [raw, out]

vars == <<csv, cache, fetches, ret, df, stress_col, view, probe>>

---------------------------------------------------------------------------
(* Bounds of the model.                                                    *)

MaxCols == 2
MaxRows == 2
MaxNameLen == 4

---------------------------------------------------------------------------
(* Texts.                                                                  *)

Uppercase ==
    <<"A", "B", "C", "D", "E", "F", "G", "H", "I", "J", "K", "L", "M",
      "N", "O", "P", "Q", "R", "S", "T", "U", "V", "W", "X", "Y", "Z">>

Lowercase ==
    <<"a", "b", "c", "d", "e", "f", "g", "h", "i", "j", "k", "l", "m",
      "n", "o", "p", "q", "r", "s", "t", "u", "v", "w", "x", "y", "z">>

\* str.strip() with no argument removes every kind of whitespace.
Whitespace == {" ", "\t", "\n"}

\* The lower-case and the upper-case letter of each letter.
LowerMap ==
    [ch \in {Uppercase[i] : i \in 1..Len(Uppercase)} |->
        Lowercase[CHOOSE i \in 1..Len(Uppercase) : Uppercase[i] = ch]]

UpperMap ==
    [ch \in {Lowercase[i] : i \in 1..Len(Lowercase)} |->
        Uppercase[CHOOSE i \in 1..Len(Lowercase) : Lowercase[i] = ch]]

LowerChar(ch) == IF ch \in DOMAIN LowerMap THEN LowerMap[ch] ELSE ch

UpperChar(ch) == IF ch \in DOMAIN UpperMap THEN UpperMap[ch] ELSE ch

RECURSIVE LStrip(_)
LStrip(s) ==
    IF s = <<>> \/ Head(s) \notin Whitespace THEN s ELSE LStrip(Tail(s))

RECURSIVE RStrip(_)
RStrip(s) ==
    IF s = <<>> \/ s[Len(s)] \notin Whitespace
    THEN s
    ELSE RStrip(SubSeq(s, 1, Len(s) - 1))

\* .str.strip()
Strip(s) == RStrip(LStrip(s))

\* .str.lower()
Lower(s) == [i \in 1..Len(s) |-> LowerChar(s[i])]

Upper(s) == [i \in 1..Len(s) |-> UpperChar(s[i])]

\* .str.replace(" ", "_")
ReplaceSpaces(s) == [i \in 1..Len(s) |-> IF s[i] = " " THEN "_" ELSE s[i]]

\* The renaming without the strip.
CanonicalizeUnstripped(s) == ReplaceSpaces(Lower(s))

\* df.columns.str.strip().str.lower().str.replace(" ", "_"), for one name
Canonicalize(s) == ReplaceSpaces(Lower(Strip(s)))

\* Python's  sub in s
Contains(sub, s) ==
    \E i \in 0..(Len(s) - Len(sub)) : SubSeq(s, i + 1, i + Len(sub)) = sub

---------------------------------------------------------------------------
(* Column names.                                                           *)

\* Headers the remote file may carry.
RawStressLevel == <<"S", "t", "r", "e", "s", "s", " ", "L", "e", "v", "e", "l">>
RawStressType == <<" ", "S", "T", "R", "E", "S", "S", " ", "t", "y", "p", "e">>
RawGender == <<"G", "e", "n", "d", "e", "r", " ">>
RawAge == <<"A", "g", "e">>
RawCourseLoad == <<"C", "o", "u", "r", "s", "e", " ", "L", "o", "a", "d">>
RawSleepDuration ==
    <<"S", "l", "e", "e", "p", " ", "D", "u", "r", "a", "t", "i", "o", "n">>
RawPhysicalActivity ==
    <<"P", "h", "y", "s", "i", "c", "a", "l", " ",
      "A", "c", "t", "i", "v", "i", "t", "y">>
RawGPA == <<"G", "P", "A">>

\* Names the scripts look up.
stress == <<"s", "t", "r", "e", "s", "s">>
gender == <<"g", "e", "n", "d", "e", "r">>
age == <<"a", "g", "e">>
course_load == <<"c", "o", "u", "r", "s", "e", "_", "l", "o", "a", "d">>
sleep_duration ==
    <<"s", "l", "e", "e", "p", "_", "d", "u", "r", "a", "t", "i", "o", "n">>
physical_activity ==
    <<"p", "h", "y", "s", "i", "c", "a", "l", "_",
      "a", "c", "t", "i", "v", "i", "t", "y">>
stress_level == <<"s", "t", "r", "e", "s", "s", "_", "l", "e", "v", "e", "l">>
StudyHours == <<"S", "t", "u", "d", "y", " ", "H", "o", "u", "r", "s">>

\* Python's None, as a name no column can have.
None == <<"None">>

---------------------------------------------------------------------------
(* The remote CSV.                                                         *)

\* The columns a file read by app.py may have, and those of a file read by
\* the page scripts.
HeaderPool ==
    {RawStressLevel, RawStressType, RawGender, RawAge, RawCourseLoad,
     RawSleepDuration}

PagesHeaderPool ==
    {RawStressLevel, RawStressType, RawSleepDuration, RawPhysicalActivity,
     RawGPA}

\* The cell texts of a column of n rows.  "" is an empty cell.  The stress
\* level takes every value on every row; the first respondent's gender is
\* "F" (the two labels are interchangeable); the other columns hold the
\* first n cells of a fixed column.
ColumnTexts(raw, n) ==
    CASE raw = RawStressLevel -> [1..n -> {"2", "6", "10", ""}]
      [] raw = RawStressType  -> {[r \in 1..n |-> "acute"]}
      [] raw = RawGender      -> {v \in [1..n -> {"F", "M"}] : v[1] = "F"}
      [] raw = RawAge         -> {SubSeq(<<"21", "18", "20", "19">>, 1, n)}
      [] raw = RawCourseLoad  -> {SubSeq(<<"3", "2", "3", "2">>, 1, n)}
      [] OTHER                -> {[r \in 1..n |-> "7"]}

IsInjective(s) == \A i, j \in 1..Len(s) : s[i] = s[j] => i = j

\* The headers of at most MaxCols distinct columns of a pool.
HeadersOf(pool) ==
    {h \in UNION {[1..n -> pool] : n \in 1..MaxCols} : IsInjective(h)}

RECURSIVE ColumnsFor(_, _)
ColumnsFor(h, n) ==
    IF h = <<>>
    THEN {<<>>}
    ELSE {<<v>> \o rest : v \in ColumnTexts(Head(h), n),
                          rest \in ColumnsFor(Tail(h), n)}

\* The files with header h and n rows.
CsvsOf(h, n) == {[header |-> h, data |-> d] : d \in ColumnsFor(h, n)}

---------------------------------------------------------------------------
(* pandas: tables, dtypes, the operations the scripts call.                *)

NoTable == [cols |-> <<>>, dtypes |-> <<>>, data |-> <<>>]

\* The value of a cell text that is a number.
NumberOf(cell) ==
    CASE cell = "2" -> 2
      [] cell = "3" -> 3
      [] cell = "4" -> 4
      [] cell = "6" -> 6
      [] cell = "7" -> 7
      [] cell = "8" -> 8
      [] cell = "10" -> 10
      [] cell = "18" -> 18
      [] cell = "19" -> 19
      [] cell = "20" -> 20
      [] cell = "21" -> 21
      [] OTHER -> 0

IsNumberText(cell) == cell \in {"2", "3", "4", "6", "7", "8", "10", "18", "19", "20", "21"}

\* read_csv's type inference: a column is numeric when every cell is a
\* number or empty, and object (text) otherwise.
InferDtype(col) ==
    IF \A r \in 1..Len(col) : col[r] = "" \/ IsNumberText(col[r])
    THEN "number"
    ELSE "object"

\* pd.read_csv(DATA_URL)
ReadCsv(file) ==
    [cols   |-> file.header,
     dtypes |-> [i \in 1..Len(file.header) |-> InferDtype(file.data[i])],
     data   |-> file.data]

HasColumn(t, c) == \E i \in 1..Len(t.cols) : t.cols[i] = c

ColumnIndex(t, c) == CHOOSE i \in 1..Len(t.cols) : t.cols[i] = c

Column(t, c) == t.data[ColumnIndex(t, c)]

Dtype(t, c) == t.dtypes[ColumnIndex(t, c)]

NRows(t) == IF t.data = <<>> THEN 0 ELSE Len(t.data[1])


\* df.select_dtypes(include="number").columns.tolist()
RECURSIVE NumericFrom(_, _)
NumericFrom(t, i) ==
    IF i > Len(t.cols)
    THEN <<>>
    ELSE (IF t.dtypes[i] = "number" THEN <<t.cols[i]>> ELSE <<>>)
         \o NumericFrom(t, i + 1)

NumericColumns(t) == NumericFrom(t, 1)

\* A mean is kept exact, as the sum and the number of the values that are
\* not NaN; n = 0 is the NaN that pandas returns when there is no value.
RECURSIVE SumOf(_)
SumOf(col) ==
    IF col = <<>>
    THEN 0
    ELSE (IF Head(col) = "" THEN 0 ELSE NumberOf(Head(col))) + SumOf(Tail(col))

RECURSIVE CountOf(_)
CountOf(col) ==
    IF col = <<>>
    THEN 0
    ELSE (IF Head(col) = "" THEN 0 ELSE 1) + CountOf(Tail(col))

\* Series.mean() of a numeric column (skipna)
Mean(col) == [sum |-> SumOf(col), n |-> CountOf(col)]

IsNaN(m) == m.n = 0

\* Comparisons of a float mean with an integer; every comparison with NaN
\* is False.
MeanGt(m, k) == ~IsNaN(m) /\ m.sum > k * m.n
MeanGe(m, k) == ~IsNaN(m) /\ m.sum >= k * m.n
MeanLe(m, k) == ~IsNaN(m) /\ m.sum <= k * m.n

\* The grouping that ignores the key: every group holds the whole column.
WholeColumn(keys, col, k) == col

\* The cells of col in the rows whose key cell is k, in row order.
RECURSIVE GroupCells(_, _, _)
GroupCells(keys, col, k) ==
    IF keys = <<>>
    THEN <<>>
    ELSE (IF Head(keys) = k THEN <<Head(col)>> ELSE <<>>)
         \o GroupCells(Tail(keys), Tail(col), k)

\* df.groupby(by)[target].mean(): one mean per distinct key; rows whose key
\* is NaN are dropped.
GroupMeans(t, by, target) ==
    LET keys == Column(t, by)
        K == {keys[r] : r \in 1..Len(keys)} \ {""}
    IN  [k \in K |-> Mean(GroupCells(keys, Column(t, target), k))]

\* Row q is placed before row r by an ascending sort of a numeric column:
\* NaN last, equal keys in their original order.
SortsBefore(col, q, r) ==
    LET same == (col[q] = "" /\ col[r] = "")
                \/ (col[q] # "" /\ col[r] # ""
                    /\ NumberOf(col[q]) = NumberOf(col[r]))
    IN  \/ col[q] # "" /\ col[r] = ""
        \/ col[q] # "" /\ col[r] # "" /\ NumberOf(col[q]) < NumberOf(col[r])
        \/ same /\ q < r

\* The row that an ascending sort by col puts at position p.
RowAt(col, p) ==
    CHOOSE r \in 1..Len(col) :
        Cardinality({q \in 1..Len(col) : SortsBefore(col, q, r)}) = p - 1

\* df.sort_values(by): the frame it returns.
SortValues(t, by) ==
    LET col == Column(t, by)
    IN  [t EXCEPT !.data =
            [i \in 1..Len(t.data) |->
                [p \in 1..Len(col) |-> t.data[i][RowAt(col, p)]]]]

\* The receiver of df.sort_values(by) after the call, had it sorted in place.
SortValuesInPlace(t, by) == SortValues(t, by)

\* The receiver of df.sort_values(by) after the call: without inplace=True
\* the call builds a new frame and leaves df as it was.
SortValuesReceiver(t, by) == t

\* df.head()
HeadOf(t) ==
    [t EXCEPT !.data =
        [i \in 1..Len(t.data) |->
            SubSeq(t.data[i], 1, IF NRows(t) < 5 THEN NRows(t) ELSE 5)]]

---------------------------------------------------------------------------
(* The loaders.                                                            *)

Loaders == {"app", "page2", "page3"}

\* The body of load_data(): app.py and Page 3 rename the columns, Page 2
\* returns what read_csv gave.
LoadBody(l, file) ==
    LET t == ReadCsv(file)
    IN  IF l = "page2"
        THEN t
        ELSE [t EXCEPT !.cols = [i \in 1..Len(t.cols) |-> Canonicalize(t.cols[i])]]

\* A loader that looks nothing up: every call runs the body.
NeverHit(l) == FALSE

\* @st.cache_data: a call whose result is memoized does not run the body.
CacheHit(l) == cache[l] # NoTable

\* What load_data() of loader l returns now.
LoadData(l) == IF CacheHit(l) THEN cache[l] ELSE LoadBody(l, csv)

\* The effect of that call on the cache and on the number of fetches.
Memoize(l) ==
    IF CacheHit(l)
    THEN UNCHANGED <<cache, fetches>>
    ELSE /\ cache' = [cache EXCEPT ![l] = LoadBody(l, csv)]
         /\ fetches' = [fetches EXCEPT ![l] = @ + 1]

---------------------------------------------------------------------------
(* app.py: the resolver.                                                   *)

\* The resolver scanning from the end: the last matching column.
RECURSIVE LastStressColumn(_)
LastStressColumn(cols) ==
    IF cols = <<>>
    THEN None
    ELSE IF Contains(stress, Lower(cols[Len(cols)]))
         THEN cols[Len(cols)]
         ELSE LastStressColumn(SubSeq(cols, 1, Len(cols) - 1))

\* for c in df.columns: if "stress" in c.lower(): return c;  return None
RECURSIVE StressColumnOf(_)
StressColumnOf(cols) ==
    IF cols = <<>>
    THEN None
    ELSE IF Contains(stress, Lower(Head(cols)))
         THEN Head(cols)
         ELSE StressColumnOf(Tail(cols))

get_stress_column(t) == StressColumnOf(t.cols)


---------------------------------------------------------------------------
(* A script run in progress: the elements displayed so far, the exception  *)
(* that ended the run ("none" while it runs) and the global df.            *)

StartRun(t) == [out |-> <<>>, crashed |-> "none", df |-> t]

\* st.<kind>(...): one more element on the page, unless the run has ended.
Show(r, kind, data) ==
    IF r.crashed # "none"
    THEN r
    ELSE [r EXCEPT !.out = Append(@, [kind |-> kind, data |-> data])]

\* An uncaught exception ends the run; Streamlit shows what was displayed
\* before it.
Raise(r, exc) == IF r.crashed # "none" THEN r ELSE [r EXCEPT !.crashed = exc]

\* A call that may rebind or mutate the global df.
WithDf(r, t) == IF r.crashed # "none" THEN r ELSE [r EXCEPT !.df = t]

\* title, objective, summary box: the texts every page of app.py opens with.
RECURSIVE ShowAll(_, _)
ShowAll(r, kinds) ==
    IF kinds = <<>>
    THEN r
    ELSE ShowAll(Show(r, Head(kinds), <<>>), Tail(kinds))

---------------------------------------------------------------------------
(* app.py: the pages.                                                      *)

HighAbove == 6
ModerateFrom == 4
ParallelAbove == 3
ParallelDims == 5

\* The sidebar: title and the page radio.
Sidebar(t) == ShowAll(StartRun(t), <<"sidebar.title", "sidebar.radio">>)

\* PAGE 1
PageHome(t) ==
    LET r0 == ShowAll(Sidebar(t), <<"title", "markdown", "subheader">>)
        r1 == Show(r0, "dataframe", HeadOf(r0.df))
    IN  Show(r1, "info", <<>>)

\* avg_stress_gender / avg_stress_course and their bar chart: the mean of an
\* object column raises.
GroupChart(r, by, sc, kind) ==
    IF HasColumn(r.df, by)
    THEN IF Dtype(r.df, sc) = "object"
         THEN Raise(r, "TypeError")
         ELSE Show(r, kind, GroupMeans(r.df, by, sc))
    ELSE r

\* PAGE 2
PageOverview(t, sc) ==
    LET r0 == ShowAll(Sidebar(t), <<"title", "markdown", "write", "markdown", "info">>)
        r1 == Show(r0, "histogram", Column(r0.df, sc))
        r2 == GroupChart(r1, gender, sc, "bar_gender")
        r3 == IF HasColumn(r2.df, age)
              THEN Show(WithDf(r2, SortValuesReceiver(r2.df, age)),
                        "line_age",
                        [x |-> Column(SortValues(r2.df, age), age),
                         y |-> Column(SortValues(r2.df, age), sc)])
              ELSE r2
    IN  IF sc # None
        THEN ShowAll(r3, <<"markdown", "success">>)
        ELSE Show(r0, "error", <<>>)

\* [col for col in numeric_cols if col != stress_col]
Without(cols, c) == SelectSeq(cols, LAMBDA x : x # c)

\* The options of the page's selectbox.
AcademicOptions(t, sc) == Without(NumericColumns(t), sc)

\* PAGE 3, with the k-th option of the selectbox selected
PageAcademic(t, sc, k) ==
    LET r0 == ShowAll(Sidebar(t), <<"title", "markdown", "write", "markdown", "info">>)
        numeric_cols == NumericColumns(r0.df)
        \* df[numeric_cols].corr()[stress_col]
        r1 == IF \E i \in 1..Len(numeric_cols) : numeric_cols[i] = sc
              THEN Show(r0, "bar_corr", numeric_cols)
              ELSE Raise(r0, "KeyError")
        r2 == IF Len(numeric_cols) > ParallelAbove
              THEN Show(r1, "parallel_coordinates",
                        SubSeq(numeric_cols, 1,
                               IF Len(numeric_cols) < ParallelDims
                               THEN Len(numeric_cols) ELSE ParallelDims))
              ELSE r1
        num_cols == Without(numeric_cols, sc)
        r3 == IF num_cols # <<>>
              THEN Show(Show(r2, "selectbox", num_cols),
                        "scatter", [x |-> num_cols[k], y |-> sc])
              ELSE r2
    IN  IF sc # None
        THEN ShowAll(r3, <<"markdown", "success">>)
        ELSE Show(r0, "error", <<>>)

\* The tiers with the first test written  avg_stress >= 6: a mean of exactly
\* 6 falls into High.
TierHighFrom(m) ==
    IF MeanGe(m, HighAbove)
    THEN "High"
    ELSE IF MeanGe(m, ModerateFrom) /\ MeanLe(m, HighAbove)
         THEN "Moderate"
         ELSE "Low"

\* if avg_stress > 6 / elif 4 <= avg_stress <= 6 / else
Tier(m) ==
    IF MeanGt(m, HighAbove)
    THEN "High"
    ELSE IF MeanGe(m, ModerateFrom) /\ MeanLe(m, HighAbove)
         THEN "Moderate"
         ELSE "Low"

\* st.warning / st.info / st.success of the tier
TierElement(tier) ==
    CASE tier = "High" -> "warning_high"
      [] tier = "Moderate" -> "info_moderate"
      [] OTHER -> "success_low"

\* PAGE 4
PageRecommendations(t, sc) ==
    LET r0 == ShowAll(Sidebar(t), <<"title", "markdown", "write", "markdown", "info">>)
        \* df[stress_col].mean(), first for the filter, then as avg_stress
        avg_stress == Mean(Column(r0.df, sc))
        r1 == IF Dtype(r0.df, sc) = "object"
              THEN Raise(r0, "TypeError")
              ELSE Show(r0, "metric", avg_stress)
        r2 == GroupChart(r1, gender, sc, "bar_gender")
        r3 == GroupChart(r2, course_load, sc, "bar_course_load")
        r4 == Show(Show(r3, "markdown", <<>>), TierElement(Tier(avg_stress)), <<>>)
    IN  IF sc # None
        THEN ShowAll(r4, <<"markdown", "success">>)
        ELSE Show(r0, "error", <<>>)

---------------------------------------------------------------------------
(* app.py: a run of the script.                                            *)

AppPages == {"Home", "Overview", "Academic", "Recommendations"}

\* The page body of a run: table t, resolved column sc, page p, option k.
AppPage(t, sc, p, k) ==
    CASE p = "Home" -> PageHome(t)
      [] p = "Overview" -> PageOverview(t, sc)
      [] p = "Academic" -> PageAcademic(t, sc, k)
      [] OTHER -> PageRecommendations(t, sc)

\* One run: df = load_data(); stress_col = get_stress_column(df); the page.
RunApp(p, k) ==
    LET t == LoadData("app")
        sc == get_stress_column(t)
        r == AppPage(t, sc, p, k)
    IN  /\ Memoize("app")
        /\ ret' = t
        /\ stress_col' = sc
        /\ df' = r.df
        /\ view' = [script |-> "app", page |-> p, option |-> k,
                    out |-> r.out, crashed |-> r.crashed]
        /\ UNCHANGED <<csv, probe>>

\* The option the selectbox can hold: the first one on a fresh page, any of
\* them once the user has chosen.
Selectable(t, sc, k) ==
    k = 1 \/ k <= Len(AcademicOptions(t, sc))

RenderHome == RunApp("Home", 1)

RenderOverview == RunApp("Overview", 1)

RenderAcademic ==
    \E k \in 1..MaxCols :
        /\ Selectable(LoadData("app"), get_stress_column(LoadData("app")), k)
        /\ RunApp("Academic", k)

RenderRecommendations == RunApp("Recommendations", 1)

---------------------------------------------------------------------------
(* Page 2.py and Page 3.py.                                                *)

\* academic_vars: the names of the list that are columns of df
AcademicVars(t) ==
    SelectSeq(<<RawGPA, StudyHours, RawStressLevel>>, LAMBDA c : HasColumn(t, c))

\* Page 2.py with the k-th numeric column selected.  numeric_only is what
\* DataFrame.corr() defaults to in the installed pandas: TRUE drops the
\* object columns, FALSE raises on them.
Page2(t, k, numeric_only) ==
    LET r0 == ShowAll(StartRun(t), <<"title", "markdown", "info">>)
        numeric_cols == NumericColumns(r0.df)
        \* st.selectbox(..., numeric_cols, index=1)
        r1 == IF Len(numeric_cols) < 2
              THEN Raise(r0, "StreamlitAPIException")
              ELSE Show(r0, "selectbox", numeric_cols)
        r2 == Show(r1, "subheader", <<>>)
        \* px.scatter(df, x=x_axis, y='Stress Level', ...)
        r3 == IF HasColumn(r2.df, RawStressLevel)
              THEN Show(r2, "scatter", [x |-> numeric_cols[k], y |-> RawStressLevel])
              ELSE Raise(r2, "ValueError")
        r4 == Show(r3, "subheader", <<>>)
        \* sns.heatmap(df.corr(), ...)
        r5 == IF ~numeric_only /\ Len(numeric_cols) < Len(r4.df.cols)
              THEN Raise(r4, "ValueError")
              ELSE Show(r4, "heatmap", numeric_cols)
        r6 == IF Len(AcademicVars(r5.df)) >= 2
              THEN Show(r5, "pairplot", AcademicVars(r5.df))
              ELSE r5
    IN  Show(r6, "success", <<>>)

\* Page 3.py
Page3(t) ==
    LET r0 == ShowAll(StartRun(t), <<"title", "markdown", "info">>)
        has_target == HasColumn(r0.df, stress_level)
        \* px.scatter(df, x='sleep_duration', y='stress_level', ...)
        r1 == IF HasColumn(r0.df, sleep_duration)
              THEN IF has_target
                   THEN Show(Show(r0, "subheader", <<>>), "scatter",
                             [x |-> sleep_duration, y |-> stress_level])
                   ELSE Raise(Show(r0, "subheader", <<>>), "ValueError")
              ELSE r0
        \* sns.boxplot(x='physical_activity', y='stress_level', data=df, ...)
        r2 == IF HasColumn(r1.df, physical_activity)
              THEN IF has_target
                   THEN Show(Show(r1, "subheader", <<>>), "boxplot",
                             [x |-> physical_activity, y |-> stress_level])
                   ELSE Raise(Show(r1, "subheader", <<>>), "ValueError")
              ELSE r1
        r3 == IF /\ HasColumn(r2.df, sleep_duration)
                 /\ HasColumn(r2.df, physical_activity)
                 /\ has_target
              THEN Show(Show(r2, "subheader", <<>>), "scatter_3d", <<>>)
              ELSE r2
    IN  Show(r3, "success", <<>>)

\* One run of a page script: df = load_data(), then the body.
RunPage(l, r) ==
    /\ Memoize(l)
    /\ ret' = LoadData(l)
    /\ df' = r.df
    /\ view' = [script |-> l, page |-> l, option |-> 1,
                out |-> r.out, crashed |-> r.crashed]
    /\ UNCHANGED <<csv, stress_col, probe>>

RenderPage2 ==
    \E k \in 1..MaxCols, numeric_only \in BOOLEAN :
        /\ k = 2 \/ k <= Len(NumericColumns(LoadData("page2")))
        /\ RunPage("page2", Page2(LoadData("page2"), k, numeric_only))

RenderPage3 == RunPage("page3", Page3(LoadData("page3")))

---------------------------------------------------------------------------
(* The canonicalization of one column name, on its own.                    *)

NameAlphabet == {" ", "\t", "_", "a", "A"}

Names == UNION {[1..n -> NameAlphabet] : n \in 0..MaxNameLen}

\* df.columns = df.columns.str.strip().str.lower().str.replace(" ", "_")
RenameColumn ==
    /\ ~probe.done
    /\ probe' = [probe EXCEPT !.out = Canonicalize(probe.raw), !.done = TRUE]
    /\ UNCHANGED <<csv, cache, fetches, ret, df, stress_col, view>>

---------------------------------------------------------------------------
(* Specifications.                                                         *)

NoView == [script |-> "none", page |-> "none", option |-> 1,
           out |-> <<>>, crashed |-> "none"]

NoProbe == [raw |-> <<>>, out |-> <<>>, done |-> FALSE]

NoCsv == [header |-> <<>>, data |-> <<>>]

\* Nothing has run: no loader has been called in this process.
Fresh ==
    /\ cache = [l \in Loaders |-> NoTable]
    /\ fetches = [l \in Loaders |-> 0]
    /\ ret = NoTable
    /\ df = NoTable
    /\ stress_col = None
    /\ view = NoView

\* app.py
Init ==
    /\ \E h \in HeadersOf(HeaderPool), n \in 1..MaxRows : csv \in CsvsOf(h, n)
    /\ Fresh
    /\ probe = NoProbe

Next ==
    \/ RenderHome
    \/ RenderOverview
    \/ RenderAcademic
    \/ RenderRecommendations

Spec == Init /\ [][Next]_vars

\* Page 2.py and Page 3.py, served by one process
InitPages ==
    /\ \E h \in HeadersOf(PagesHeaderPool), n \in 1..MaxRows : csv \in CsvsOf(h, n)
    /\ Fresh
    /\ probe = NoProbe

NextPages ==
    \/ RenderPage2
    \/ RenderPage3

SpecPages == InitPages /\ [][NextPages]_vars

\* The renaming of one column
InitCanon ==
    /\ csv = NoCsv
    /\ Fresh
    /\ \E s \in Names : probe = [raw |-> s, out |-> <<>>, done |-> FALSE]

NextCanon == RenameColumn

SpecCanon == InitCanon /\ [][NextCanon]_vars

---------------------------------------------------------------------------
(* What the last run displayed.                                            *)

Shown(kind) == \E i \in 1..Len(view.out) : view.out[i].kind = kind

Count(kind) == Cardinality({i \in 1..Len(view.out) : view.out[i].kind = kind})

DataOf(kind) ==
    view.out[CHOOSE i \in 1..Len(view.out) : view.out[i].kind = kind].data

OnAppPage(p) == view.script = "app" /\ view.page = p

\* The columns of t whose name contains "stress".
StressMatches(t) == {i \in 1..Len(t.cols) : Contains(stress, t.cols[i])}

\* A name in canonical form: nothing to strip, no capital, no space.
IsCanonical(s) ==
    /\ s = <<>> \/ (s[1] \notin Whitespace /\ s[Len(s)] \notin Whitespace)
    /\ \A i \in 1..Len(s) : s[i] # " " /\ s[i] \notin DOMAIN LowerMap

TierKinds == {"warning_high", "info_moderate", "success_low"}

---------------------------------------------------------------------------
(* C1.  load_data() is memoized: once a call of a loader has returned, a   *)
(* later call of it fetches nothing (its fetch count stays 1) and returns  *)
(* the same table as the call before.                                      *)
C1_LoadMemoized ==
    [][\A l \in Loaders :
          cache[l] # NoTable =>
              /\ fetches[l] = 1
              /\ fetches'[l] = 1
              /\ (view.script = l /\ view'.script = l => ret' = ret)]_vars

\* A call has returned; its table is the one in the cache, fetched once.
C1_Witness ==
    /\ view.script = "app"
    /\ fetches["app"] = 1
    /\ cache["app"] # NoTable
    /\ ret = cache["app"]

(* C2.  get_stress_column returns the first column, in table order, whose  *)
(* name contains "stress", and None when no column does; the columns       *)
(* age, Stress Level, gender give stress_level once canonical.             *)
C2_FirstStressColumn ==
    /\ view.script = "app" =>
          IF StressMatches(ret) = {}
          THEN stress_col = None
          ELSE \E i \in StressMatches(ret) :
                  /\ stress_col = ret.cols[i]
                  /\ \A j \in StressMatches(ret) : i <= j
    /\ StressColumnOf(<<Canonicalize(RawAge), Canonicalize(RawStressLevel),
                        Canonicalize(RawGender)>>) = stress_level
    /\ StressColumnOf(<<age, gender>>) = None

\* Two columns match and the earlier one was returned.
C2_Witness ==
    /\ view.script = "app"
    /\ Cardinality(StressMatches(ret)) = 2
    /\ stress_col = ret.cols[1]
    /\ stress_col # ret.cols[2]

(* C3.  The recommendation shows exactly one tier for a defined mean: High *)
(* when mean > 6, Moderate when 4 <= mean <= 6 (both ends included), Low   *)
(* when mean < 4.                                                          *)
C3_Tiers ==
    (/\ OnAppPage("Recommendations")
     /\ Shown("metric")
     /\ ~IsNaN(DataOf("metric"))) =>
        LET m == DataOf("metric")
        IN  /\ m = [sum |-> SumOf(Column(df, stress_col)),
                    n |-> CountOf(Column(df, stress_col))]
            /\ Cardinality({i \in 1..Len(view.out) : view.out[i].kind \in TierKinds}) = 1
            /\ Shown("warning_high") <=> m.sum > 6 * m.n
            /\ Shown("info_moderate") <=> (4 * m.n <= m.sum /\ m.sum <= 6 * m.n)
            /\ Shown("success_low") <=> m.sum < 4 * m.n

\* A mean of exactly 6 was classified Moderate.
C3_Witness ==
    /\ OnAppPage("Recommendations")
    /\ Shown("metric")
    /\ ~IsNaN(DataOf("metric"))
    /\ DataOf("metric").sum = 6 * DataOf("metric").n
    /\ Shown("info_moderate")

(* C4.  When no column contains "stress", every page render completes      *)
(* without an exception, whatever optional columns are present.  Stated    *)
(* for the pages of app.py and for Page 3.py.                              *)
C4_UnresolvedNeverCrashes ==
    (view.script \in {"app", "page3"} /\ \A i \in 1..Len(df.cols) : ~Contains(stress, Lower(df.cols[i])))
        => view.crashed = "none"

(* C5.  Every table a loader returns has only canonical column names.      *)
C5_LoadedNamesCanonical ==
    \A l \in Loaders :
        \A i \in 1..Len(cache[l].cols) : IsCanonical(cache[l].cols[i])

(* C6.  For gender and course_load: when the column is present, the chart  *)
(* holds, for each distinct value of the column, the mean of the target    *)
(* values of the rows of that group ({A: [2,4], B: [6,8]} gives 3 and 7);  *)
(* when it is absent, nothing is computed for it, no error is raised and   *)
(* the rest of the page is rendered.  The target column is numeric.        *)
RECURSIVE SumRows(_, _)
SumRows(col, R) ==
    IF R = {}
    THEN 0
    ELSE LET r == CHOOSE x \in R : TRUE
         IN  (IF col[r] = "" THEN 0 ELSE NumberOf(col[r])) + SumRows(col, R \ {r})

\* g is the table of the means of target per value of by.
IsGroupMeans(g, t, by, target) ==
    LET keys == Column(t, by)
        vals == Column(t, target)
        Rows(k) == {r \in 1..Len(keys) : keys[r] = k}
    IN  /\ DOMAIN g = {keys[r] : r \in 1..Len(keys)} \ {""}
        /\ \A k \in DOMAIN g :
              /\ g[k].sum = SumRows(vals, Rows(k))
              /\ g[k].n = Cardinality({r \in Rows(k) : vals[r] # ""})

GroupExample ==
    [cols |-> <<gender, stress_level>>,
     dtypes |-> <<"object", "number">>,
     data |-> <<<<"A", "A", "B", "B">>, <<"2", "4", "6", "8">>>>]

GroupChartOk(by, kind) ==
    IF HasColumn(df, by)
    THEN Count(kind) = 1 /\ IsGroupMeans(DataOf(kind), df, by, stress_col)
    ELSE ~Shown(kind)

C6_GroupMeans ==
    /\ (/\ view.script = "app"
        /\ view.page \in {"Overview", "Recommendations"}
        /\ stress_col # None
        /\ Dtype(df, stress_col) = "number") =>
            /\ GroupChartOk(gender, "bar_gender")
            /\ view.page = "Recommendations" =>
                  GroupChartOk(course_load, "bar_course_load")
            /\ view.crashed = "none"
            /\ view.out[Len(view.out)].kind = "success"
    /\ GroupMeans(GroupExample, gender, stress_level)
          = [k \in {"A", "B"} |->
                IF k = "A" THEN [sum |-> 3 * 2, n |-> 2] ELSE [sum |-> 7 * 2, n |-> 2]]

\* Two groups with different means were charted.
C6_Witness ==
    /\ OnAppPage("Overview")
    /\ stress_col # None
    /\ Shown("bar_gender")
    /\ Cardinality(DOMAIN DataOf("bar_gender")) = 2
    /\ \E a, b \in DOMAIN DataOf("bar_gender") :
          /\ DataOf("bar_gender")[a].n > 0
          /\ DataOf("bar_gender")[b].n > 0
          /\ DataOf("bar_gender")[a].sum * DataOf("bar_gender")[b].n
                # DataOf("bar_gender")[b].sum * DataOf("bar_gender")[a].n

(* C7.  A failure while computing one derived metric does not prevent the  *)
(* other charts of the page: on the Academic Factors page the scatter of   *)
(* the selected variable is shown whenever there is a variable to select,  *)
(* also when the correlation with the target could not be computed.        *)
C7_FailuresIsolated ==
    (/\ OnAppPage("Academic")
     /\ stress_col # None
     /\ AcademicOptions(df, stress_col) # <<>>) =>
        /\ Shown("scatter")
        /\ Shown("success")

(* C8.  When the target column has no value, the mean is undefined and no  *)
(* High / Moderate / Low recommendation is displayed.                      *)
C8_NoTierForUndefinedMean ==
    (/\ OnAppPage("Recommendations")
     /\ stress_col # None
     /\ Dtype(df, stress_col) = "number"
     /\ \A r \in 1..NRows(df) : Column(df, stress_col)[r] = "") =>
        \A i \in 1..Len(view.out) : view.out[i].kind \notin TierKinds

(* C9.  Canonicalization does not depend on leading or trailing whitespace *)
(* nor on letter case, turns each inner space into an underscore, and      *)
(* returns a canonical name unchanged; " Stress Level " and "stress_level" *)
(* give the same name.                                                     *)
Paddings == {<<>>, <<" ">>, <<"\t">>, <<" ", " ">>, <<"\n", " ">>}

C9_Canonical ==
    /\ probe.done =>
          /\ \A a, b \in Paddings : Canonicalize(a \o probe.raw \o b) = probe.out
          /\ Canonicalize(Upper(probe.raw)) = probe.out
          /\ Canonicalize(Lower(probe.raw)) = probe.out
          /\ Canonicalize(probe.out) = probe.out
          /\ Len(probe.out) = Len(Strip(probe.raw))
          /\ \A i \in 1..Len(probe.out) :
                /\ probe.out[i] # " "
                /\ Strip(probe.raw)[i] = " " => probe.out[i] = "_"
                /\ Strip(probe.raw)[i] # " " => probe.out[i] = LowerChar(Strip(probe.raw)[i])
    /\ Canonicalize(<<" ">> \o RawStressLevel \o <<" ">>) = Canonicalize(stress_level)
    /\ Canonicalize(stress_level) = stress_level

\* A padded, capitalized name with an inner space was canonicalized.
C9_Witness ==
    /\ probe.done
    /\ probe.raw = <<" ", "A", " ", "a">>
    /\ probe.out = <<"a", "_", "a">>

(* C10.  The loaded table is immutable: no run changes the cached table,   *)
(* and the df a run ends with is the table as it was loaded (same names,   *)
(* column order, row order and cells).                                     *)
C10_TableImmutable ==
    [][/\ \A l \in Loaders : cache[l] # NoTable => cache'[l] = cache[l]
       /\ view'.script # "none" => df' = cache'[view'.script]]_vars

\* The Overview page charted the rows in another order than the table's,
\* and the table is as loaded.
C10_Witness ==
    /\ OnAppPage("Overview")
    /\ Shown("line_age")
    /\ DataOf("line_age").x # Column(df, age)
    /\ df = cache["app"]

=============================================================================
